---- MODULE Spec2Model ----
(***************************************************************************)
(* A model of segyio_converter.py: the SEG-Y analyzer (analyze_segy_file), *)
(* the Fix-Up rewriter (validate_and_fix_segy) and the Grid-Standardize    *)
(* rewriter (standardize_segy_for_pzero).  Files are sequences of bytes    *)
(* (0..255) with the byte offsets of the source; Python's slice reads and  *)
(* slice assignments are modelled with their clamping semantics.           *)
(***************************************************************************)
EXTENDS Integers, Sequences, FiniteSets, TLC

VARIABLES
    op,              \* the function being executed: "analyze", "fix", "grid"
    pc,              \* position inside that function
    run,             \* 1: on the original input, 2: Fix-Up on its own output
    quiet_nan,       \* whether the build's float<->double conversion quiets NaNs
    input0,          \* the original input file (never modified)
    infile,          \* bytes of the file opened for reading
    outfile,         \* bytes of the output path, or Absent
    outfile0,        \* state of the output path when the call started
    out1,            \* the output of the first Fix-Up run (run = 2 only)
    err,             \* the exception raised, "" when none
    file_size,
    textual_header,
    binary_header,
    num_samples,
    data_format,
    traces,          \* Fix-Up: the pre-scan's trace records
    pos,
    actual_traces,
    idx,             \* Fix-Up: index of the next record to write
    written,         \* Fix-Up: number of bytes written for each record so far
    awalk,           \* Analyzer: the (trace_start, actual_size) pairs visited
    trace_sizes,
    inline_range,
    xline_range,
    trace_size,
    total_traces,
    grid_size,
    inline,
    xline,
    trace_count,
    fix_params,      \* what read_binary_header returned to Fix-Up
    grid_params      \* what analyze_segy_parameters returned

vars == <<op, pc, run, quiet_nan, input0, infile, outfile, outfile0, out1, err,
          file_size, textual_header, binary_header, num_samples, data_format,
          traces, pos, actual_traces, idx, written, awalk, trace_sizes,
          inline_range, xline_range, trace_size, total_traces, grid_size,
          inline, xline, trace_count, fix_params, grid_params>>

(***************************************************************************)
(* Bounds of the model.                                                    *)
(***************************************************************************)
MaxTraces == 2        \* traces in an irregular input file
MaxDecl == 3          \* largest sample count a trace header declares
MaxGridTraces == 10   \* traces in a uniform input file

(***************************************************************************)
(* Sizes of the file format.                                               *)
(***************************************************************************)
TextualSize == 3200
BinarySize == 400
HeaderSize == 3600
TraceHeaderSize == 240
SampleSize == 4

Absent == <<-1>>
StructError == -1

Min(a, b) == IF a < b THEN a ELSE b
Max(a, b) == IF a > b THEN a ELSE b

(***************************************************************************)
(* Python bytes: b[lo:hi], b[lo:hi] = v, file.seek(p); file.read(n),       *)
(* bytes.ljust(n, b'\x00').                                                *)
(***************************************************************************)
Slice(b, lo, hi) ==
    LET l == Min(lo, Len(b))
        h == Min(hi, Len(b))
    IN  IF h <= l THEN <<>> ELSE SubSeq(b, l + 1, h)

SliceAssign(b, lo, hi, v) ==
    LET l == Min(lo, Len(b))
        h == Max(l, Min(hi, Len(b)))
    IN  SubSeq(b, 1, l) \o v \o SubSeq(b, h + 1, Len(b))

Read(f, p, n) == Slice(f, p, p + n)

Zeros(n) == [i \in 1..n |-> 0]

LJust(b, n) == IF Len(b) >= n THEN b ELSE b \o Zeros(n - Len(b))

(***************************************************************************)
(* struct.pack / struct.unpack, big-endian.                                *)
(***************************************************************************)
UnpackU16(b) == IF Len(b) = 2 THEN b[1] * 256 + b[2] ELSE StructError

UnpackI16(b) ==
    IF Len(b) = 2
    THEN IF b[1] >= 128 THEN (b[1] - 256) * 256 + b[2] ELSE b[1] * 256 + b[2]
    ELSE StructError

UnpackI32(b) ==
    (IF b[1] >= 128 THEN b[1] - 256 ELSE b[1]) * 16777216
        + b[2] * 65536 + b[3] * 256 + b[4]

CanPackU16(v) == v >= 0 /\ v <= 65535

PackU16(v) == <<v \div 256, v % 256>>

PackU32(v) == <<v \div 16777216, (v \div 65536) % 256, (v \div 256) % 256, v % 256>>

PackI32(v) == PackU32(v)

(***************************************************************************)
(* Header Codec.                                                           *)
(***************************************************************************)
\* read_binary_header: three unsigned 16-bit fields of the 400 bytes at 3200
read_binary_header(f) ==
    LET bh == Read(f, TextualSize, BinarySize)
    IN  [sample_interval |-> UnpackU16(Slice(bh, 16, 18)),
         num_samples |-> UnpackU16(Slice(bh, 20, 22)),
         data_sample_format |-> UnpackU16(Slice(bh, 24, 26))]

\* get_binary_header_details: the same three fields, read as signed 16-bit;
\* struct.error when the buffer is too short for any of the ten fields
DetailsReadable(bh) == Len(bh) >= 26

get_binary_header_details(bh) ==
    [sample_interval |-> UnpackI16(Slice(bh, 16, 18)),
     num_samples |-> UnpackI16(Slice(bh, 20, 22)),
     format_code |-> UnpackI16(Slice(bh, 24, 26))]

\* the sample count a 240-byte trace header declares
DeclaredSamples(th) == UnpackU16(Slice(th, 114, 116))

\* trace_size = 240 + (trace_samples * 4)
TraceSize(samples) == TraceHeaderSize + samples * SampleSize

\* the declared count taken as it is, 0 included
ScanSamplesRaw(declared, ns) == declared

\* if trace_samples == 0: trace_samples = num_samples
ScanSamples(declared, ns) == IF declared = 0 THEN ns ELSE declared

\* a scan position that is not advanced
NextPosStuck(p, size) == p

\* pos += trace_size
NextPos(p, size) == p + size

\* a check that lets a sample count of 0 through
InvalidSampleCountNeg(ns) == ns < 0

\* if num_samples <= 0: raise ValueError
InvalidSampleCount(ns) == ns <= 0

\* binary_header[3212:3216] = struct.pack('>L', actual_traces)
SetTraceCount(bh, n) == SliceAssign(bh, 3212, 3216, PackU32(n))

\* the binary header Fix-Up writes
FixBinaryHeader(bh, ns, n) ==
    LET b1 == SliceAssign(bh, 300, 302, PackU16(2))
        b2 == SliceAssign(b1, 20, 22, PackU16(ns))
        b3 == SliceAssign(b2, 24, 26, PackU16(5))
    IN  SetTraceCount(b3, n)

(***************************************************************************)
(* Sample Codec: struct.pack('>f', float(sample)).                         *)
(***************************************************************************)
\* float32 bits of an integer -2^31 .. 2^31-1, rounded to nearest even
FloatBitsOfInt(v) ==
    IF v = 0 THEN <<0, 0, 0, 0>>
    ELSE IF v = -2147483647 - 1 THEN <<207, 0, 0, 0>>
    ELSE
      LET s == IF v < 0 THEN 1 ELSE 0
          a == IF v < 0 THEN -v ELSE v
          e == CHOOSE k \in 0..30 : 2^k <= a /\ (k = 30 \/ a < 2^(k + 1))
          sh == e - 23
          q0 == IF e <= 23 THEN a * 2^(23 - e) ELSE a \div 2^sh
          r == IF e <= 23 THEN 0 ELSE a % 2^sh
          half == IF e <= 23 THEN 1 ELSE 2^(sh - 1)
          up == r > half \/ (r = half /\ q0 % 2 = 1)
          q1 == IF up THEN q0 + 1 ELSE q0
          q == IF q1 = 16777216 THEN 8388608 ELSE q1
          ex == (IF q1 = 16777216 THEN e + 1 ELSE e) + 127
          m == q - 8388608
      IN  <<s * 128 + ex \div 2, (ex % 2) * 128 + m \div 65536,
            (m \div 256) % 256, m % 256>>

IsNaN(c) ==
    /\ c[1] % 128 = 127
    /\ c[2] >= 128
    /\ (c[2] % 128 # 0 \/ c[3] # 0 \/ c[4] # 0)

\* float32 -> double -> float32: the bits survive, except that the
\* conversion may set the quiet bit of a NaN
ReencodeFloat(c, quiet) ==
    IF IsNaN(c) /\ quiet /\ (c[2] \div 64) % 2 = 0
    THEN <<c[1], c[2] + 64, c[3], c[4]>>
    ELSE c

\* one 4-byte chunk decoded by format code and packed as float32
ConvertSample(fmt, chunk, quiet) ==
    IF fmt = 1 THEN FloatBitsOfInt(UnpackI16(Slice(chunk, 0, 2)))
    ELSE IF fmt = 2 THEN FloatBitsOfInt(UnpackI32(chunk))
    ELSE IF fmt \in {3, 5} THEN ReencodeFloat(chunk, quiet)
    ELSE FloatBitsOfInt(0)

\* for j in range(0, len(sample_bytes), 4): ... outfile.write(...)
ConvertSamples(fmt, b, quiet) ==
    LET n == (Len(b) + 3) \div 4
        chunk(k) == LJust(Slice(b, 4 * k, 4 * k + 4), 4)
    IN  [i \in 1..(4 * n) |->
            ConvertSample(fmt, chunk((i - 1) \div 4), quiet)[((i - 1) % 4) + 1]]

\* padding of one byte per missing sample
PaddingShort(remaining) == IF remaining > 0 THEN Zeros(remaining) ELSE <<>>

\* outfile.write(b'\x00' * (remaining_samples * 4)) when remaining_samples > 0
Padding(remaining) == IF remaining > 0 THEN Zeros(remaining * SampleSize) ELSE <<>>

\* the bytes Fix-Up writes for one trace record
FixTraceBytes(f, rec, ns, fmt, quiet) ==
    LET th == SliceAssign(Read(f, rec.pos, TraceHeaderSize), 114, 116, PackU16(ns))
        actual_samples == Min(rec.samples, ns)
        sample_bytes == Read(f, rec.pos + TraceHeaderSize, actual_samples * SampleSize)
    IN  th \o ConvertSamples(fmt, sample_bytes, quiet) \o Padding(ns - actual_samples)

(***************************************************************************)
(* Input files.  A file is built from the layout the readers consume:      *)
(* 3200 bytes of text, the 400-byte binary header, then the traces.        *)
(***************************************************************************)
TextBytes == [i \in 1..TextualSize |-> 64]

MkBinaryHeader(ns, fmt, rev) ==
    LET z == Zeros(BinarySize)
        b1 == SliceAssign(z, 16, 18, PackU16(2000))
        b2 == SliceAssign(b1, 20, 22, PackU16(ns))
        b3 == SliceAssign(b2, 24, 26, PackU16(fmt))
    IN  SliceAssign(b3, 300, 302, PackU16(rev))

\* trace number t: its header declares decl samples, payload follows
MkTrace(t, decl, payload) ==
    LET z == Zeros(TraceHeaderSize)
        h1 == SliceAssign(z, 0, 4, PackU32(t))
        h2 == SliceAssign(h1, 114, 116, PackU16(decl))
        h3 == SliceAssign(h2, 188, 190, PackU16(7))
    IN  SliceAssign(h3, 192, 194, PackU16(t)) \o payload

\* n float32 samples of trace t (small normal numbers)
MkPayload(t, n) ==
    [i \in 1..(n * SampleSize) |->
        IF (i - 1) % 4 = 0 THEN 64 + t
        ELSE IF (i - 1) % 4 = 1 THEN ((i - 1) \div 4) + 1 ELSE 0]

RECURSIVE MkTraces(_, _, _, _)
MkTraces(decls, t, ns, zdata) ==
    IF decls = <<>> THEN <<>>
    ELSE LET d == Head(decls)
             phys == IF d = 0 THEN (IF zdata THEN ns ELSE 0) ELSE d
         IN  MkTrace(t, d, MkPayload(t, phys)) \o MkTraces(Tail(decls), t + 1, ns, zdata)

\* what follows the last whole trace: nothing, a cut trace header, a whole
\* header whose payload is cut short, or one sample without a trace header
MkTail(kind, ns) ==
    IF kind = 0 THEN <<>>
    ELSE IF kind = 1 THEN Slice(MkTrace(99, ns, <<>>), 0, 100)
    ELSE IF kind = 2 THEN MkTrace(99, ns + 1, MkPayload(99, ns))
    ELSE MkPayload(99, 1)

TailKinds == {0, 1, 2, 3}

\* the sample counts the binary headers of the input files declare
HeaderCounts == {0, 1, 2}

SeqsUpTo(S, n) == UNION {[1..k -> S] : k \in 0..n}

\* files whose traces declare any counts, declared 0 with or without payload
IrregularFiles ==
    {TextBytes \o MkBinaryHeader(ns, 5, 2) \o MkTraces(decls, 1, ns, zdata)
        \o MkTail(tl, ns) :
        ns \in HeaderCounts, decls \in SeqsUpTo(0..MaxDecl, MaxTraces),
        zdata \in BOOLEAN, tl \in TailKinds}

\* sample bit patterns: 0, 1.0, a signalling NaN, all ones, the largest and
\* the smallest int32, 2^24+1, 32767 in the upper half
Palette ==
    {<<0, 0, 0, 0>>, <<63, 128, 0, 0>>, <<127, 128, 0, 1>>, <<255, 255, 255, 255>>,
     <<127, 255, 255, 255>>, <<128, 0, 0, 0>>, <<1, 0, 0, 1>>, <<127, 255, 0, 0>>}

Formats == {0, 1, 2, 3, 5}

\* one trace of two samples in every sample format
CodecFiles ==
    {TextBytes \o MkBinaryHeader(2, fmt, rev) \o MkTrace(1, 2, c \o <<63, 128, 0, 0>>) :
        fmt \in Formats, rev \in {0, 2}, c \in Palette}

\* n traces that each declare ns samples, nothing after them
UniformFile(ns, n) ==
    TextBytes \o MkBinaryHeader(ns, 5, 2) \o MkTraces([k \in 1..n |-> ns], 1, ns, TRUE)

ShortLengths == {0, 3210, 3300, 3599}

ShortFiles == {Slice(UniformFile(1, 1), 0, n) : n \in ShortLengths}

FixInputs == IrregularFiles \cup CodecFiles \cup ShortFiles

PriorOutputs == {Absent, <<9, 9, 9>>}

(***************************************************************************)
(* Initial state: a call is about to start on some input file.             *)
(***************************************************************************)
\* no header has been read yet
NoParams == [num_samples |-> 0, sample_interval |-> 0, format_code |-> 0, trace_size |-> 0]

Locals0 ==
    /\ err = ""
    /\ file_size = 0
    /\ textual_header = <<>>
    /\ binary_header = <<>>
    /\ num_samples = 0
    /\ data_format = 0
    /\ traces = <<>>
    /\ pos = 0
    /\ actual_traces = 0
    /\ idx = 0
    /\ written = <<>>
    /\ awalk = <<>>
    /\ trace_sizes = {}
    /\ inline_range = {}
    /\ xline_range = {}
    /\ trace_size = 0
    /\ total_traces = 0
    /\ grid_size = 0
    /\ inline = 0
    /\ xline = 0
    /\ trace_count = 0
    /\ fix_params = NoParams
    /\ grid_params = NoParams

\* the analyzer, then Fix-Up, then Fix-Up on its own output
InitFix ==
    /\ op = "analyze"
    /\ pc = "start"
    /\ run = 1
    /\ infile \in FixInputs
    /\ input0 = infile
    /\ quiet_nan \in (IF infile \in CodecFiles THEN BOOLEAN ELSE {TRUE})
    /\ outfile0 \in PriorOutputs
    /\ outfile = outfile0
    /\ out1 = Absent
    /\ Locals0

(***************************************************************************)
(* analyze_segy_file                                                       *)
(***************************************************************************)
FixLocals == <<traces, pos, actual_traces, idx, written, data_format>>
GridLocals == <<total_traces, grid_size, inline, xline, trace_count>>
WalkLocals == <<awalk, trace_sizes, inline_range, xline_range>>
Params == <<fix_params, grid_params>>
Files == <<input0, infile, outfile, outfile0, out1, quiet_nan, run, Params>>

\* open, read both headers, get_binary_header_details, expected_traces
AnalyzeHeaders ==
    /\ op = "analyze" /\ pc = "start"
    /\ LET bh == Read(infile, TextualSize, BinarySize)
           info == get_binary_header_details(bh)
           ts == TraceSize(info.num_samples)
       IN  /\ file_size' = Len(infile)
           /\ textual_header' = Read(infile, 0, TextualSize)
           /\ binary_header' = bh
           /\ IF ~DetailsReadable(bh)
              THEN /\ pc' = "raised" /\ err' = "struct.error"
                   /\ UNCHANGED <<num_samples, trace_size>>
              ELSE /\ num_samples' = info.num_samples
                   /\ trace_size' = ts
                   /\ IF ts = 0
                      THEN pc' = "raised" /\ err' = "ZeroDivisionError"
                      ELSE pc' = "walk" /\ err' = ""
    /\ pos' = HeaderSize
    /\ actual_traces' = 0
    /\ UNCHANGED <<op, Files, traces, idx, written, data_format, WalkLocals, GridLocals>>

\* one evaluation of `while file.tell() < file_size` and of its body
AnalyzeWalk ==
    /\ op = "analyze" /\ pc = "walk"
    /\ LET trace_start == pos
           trace_header == Read(infile, trace_start, TraceHeaderSize)
           trace_samples == DeclaredSamples(trace_header)
           actual_size == TraceSize(trace_samples)
       IN  IF pos < file_size /\ Len(trace_header) = TraceHeaderSize
           THEN /\ awalk' = Append(awalk, [pos |-> trace_start, size |-> actual_size])
                /\ trace_sizes' = trace_sizes \cup {actual_size}
                /\ inline_range' =
                       inline_range \cup {UnpackU16(Slice(trace_header, 188, 190))}
                /\ xline_range' =
                       xline_range \cup {UnpackU16(Slice(trace_header, 192, 194))}
                /\ pos' = trace_start + actual_size
                /\ actual_traces' = actual_traces + 1
                /\ pc' = "walk"
           ELSE /\ pc' = "report"
                /\ UNCHANGED <<WalkLocals, pos, actual_traces>>
    /\ UNCHANGED <<op, Files, err, file_size, textual_header, binary_header,
                   num_samples, data_format, traces, idx, written, trace_size,
                   GridLocals>>

\* the report: min(inline_range) raises ValueError on an empty set
AnalyzeReport ==
    /\ op = "analyze" /\ pc = "report"
    /\ IF inline_range = {}
       THEN pc' = "raised" /\ err' = "ValueError"
       ELSE pc' = "done" /\ err' = ""
    /\ UNCHANGED <<op, Files, file_size, textual_header, binary_header,
                   num_samples, FixLocals, WalkLocals, trace_size, GridLocals>>

(***************************************************************************)
(* validate_and_fix_segy                                                   *)
(***************************************************************************)
\* the caller goes on to Fix-Up on the same input
CallFix ==
    /\ op = "analyze" /\ pc \in {"done", "raised"}
    /\ op' = "fix" /\ pc' = "start" /\ err' = ""
    /\ file_size' = 0 /\ textual_header' = <<>> /\ binary_header' = <<>>
    /\ num_samples' = 0 /\ pos' = 0 /\ actual_traces' = 0 /\ trace_size' = 0
    /\ UNCHANGED <<Files, traces, idx, written, data_format, WalkLocals, GridLocals>>

\* size check, both headers, read_binary_header, sample-count check
FixValidate ==
    /\ op = "fix" /\ pc = "start"
    /\ file_size' = Len(infile)
    /\ IF Len(infile) < HeaderSize
       THEN /\ pc' = "raised" /\ err' = "ValueError: too small"
            /\ UNCHANGED <<textual_header, binary_header, num_samples,
                           data_format, trace_size, pos>>
       ELSE LET h == read_binary_header(infile)
            IN  /\ textual_header' = Read(infile, 0, TextualSize)
                /\ binary_header' = Read(infile, TextualSize, BinarySize)
                /\ num_samples' = h.num_samples
                /\ data_format' = h.data_sample_format
                /\ IF InvalidSampleCount(h.num_samples)
                   THEN /\ pc' = "raised" /\ err' = "ValueError: samples"
                        /\ UNCHANGED <<trace_size, pos>>
                   ELSE /\ pc' = "scan" /\ err' = ""
                        /\ trace_size' = TraceSize(h.num_samples)
                        /\ pos' = HeaderSize
    /\ UNCHANGED <<op, Files, traces, actual_traces, idx, written, WalkLocals,
                   GridLocals>>

\* one evaluation of `while pos < file_size` and of its body
FixScan ==
    /\ op = "fix" /\ pc = "scan"
    /\ LET trace_header == Read(infile, pos, TraceHeaderSize)
           trace_samples == ScanSamples(DeclaredSamples(trace_header), num_samples)
           size == TraceSize(trace_samples)
       IN  IF /\ pos < file_size
              /\ ~(pos + TraceHeaderSize > file_size)
              /\ Len(trace_header) = TraceHeaderSize
              /\ ~(pos + size > file_size)
           THEN /\ traces' = Append(traces,
                        [pos |-> pos, size |-> size, samples |-> trace_samples])
                /\ pos' = NextPos(pos, size)
                /\ actual_traces' = actual_traces + 1
                /\ pc' = "scan"
           ELSE /\ pc' = "open"
                /\ UNCHANGED <<traces, pos, actual_traces>>
    /\ UNCHANGED <<op, Files, err, file_size, textual_header, binary_header,
                   num_samples, data_format, idx, written, WalkLocals, trace_size,
                   GridLocals>>

\* open(output_file, 'wb'), update the binary header, write both headers
FixWriteHeaders ==
    /\ op = "fix" /\ pc = "open"
    /\ binary_header' = FixBinaryHeader(binary_header, num_samples, actual_traces)
    /\ outfile' = textual_header \o binary_header'
    /\ idx' = 1
    /\ written' = <<>>
    /\ pc' = "write"
    /\ UNCHANGED <<Params, op, run, quiet_nan, input0, infile, outfile0, out1, err,
                   file_size, textual_header, num_samples, data_format, traces,
                   pos, actual_traces, WalkLocals, trace_size, GridLocals>>

\* one iteration of `for i, trace in enumerate(traces, 1)`
FixWriteTrace ==
    /\ op = "fix" /\ pc = "write" /\ idx <= Len(traces)
    /\ LET b == FixTraceBytes(infile, traces[idx], num_samples, data_format, quiet_nan)
       IN  /\ outfile' = outfile \o b
           /\ written' = Append(written,
                  [off |-> Len(outfile), len |-> Len(b), src |-> traces[idx].pos])
    /\ idx' = idx + 1
    /\ UNCHANGED <<Params, op, pc, run, quiet_nan, input0, infile, outfile0, out1, err,
                   file_size, textual_header, binary_header, num_samples,
                   data_format, traces, pos, actual_traces, WalkLocals, trace_size,
                   GridLocals>>

\* the loop is over: both files are closed
FixFinish ==
    /\ op = "fix" /\ pc = "write" /\ idx > Len(traces)
    /\ pc' = "done"
    /\ UNCHANGED <<op, Files, err, file_size, textual_header, binary_header,
                   num_samples, FixLocals, WalkLocals, trace_size, GridLocals>>

\* the caller runs Fix-Up again, on the file it has just written, into a
\* fresh output path
CallFixAgain ==
    /\ op = "fix" /\ pc = "done" /\ run = 1
    /\ run' = 2
    /\ infile' = outfile
    /\ out1' = outfile
    /\ outfile' = Absent
    /\ outfile0' = Absent
    /\ pc' = "start" /\ err' = ""
    /\ file_size' = 0 /\ textual_header' = <<>> /\ binary_header' = <<>>
    /\ num_samples' = 0 /\ data_format' = 0 /\ traces' = <<>> /\ pos' = 0
    /\ actual_traces' = 0 /\ idx' = 0 /\ written' = <<>> /\ trace_size' = 0
    /\ UNCHANGED <<Params, op, quiet_nan, input0, WalkLocals, GridLocals>>

NextFix ==
    \/ AnalyzeHeaders
    \/ AnalyzeWalk
    \/ AnalyzeReport
    \/ CallFix
    \/ FixValidate
    \/ FixScan
    \/ FixWriteHeaders
    \/ FixWriteTrace
    \/ FixFinish
    \/ CallFixAgain

Spec == InitFix /\ [][NextFix]_vars

(***************************************************************************)
(* standardize_segy_for_pzero                                              *)
(***************************************************************************)
\* Python's a // b
FloorDiv(a, b) == IF b > 0 THEN a \div b ELSE (-a) \div (-b)

\* a trace count that takes a cut last trace for a whole one
TotalTracesUp(fs, ts) == FloorDiv(fs - HeaderSize + ts - 1, ts)

\* total_traces = (file_size - 3600) // trace_size
TotalTraces(fs, ts) == FloorDiv(fs - HeaderSize, ts)

\* the square root rounded up
GridSizeUp(n) == CHOOSE g \in 0..n : g * g >= n /\ (g = 0 \/ (g - 1) * (g - 1) < n)

\* int(np.sqrt(total_traces)) for total_traces >= 0
GridSize(n) == CHOOSE g \in 0..n : g * g <= n /\ (g + 1) * (g + 1) > n

\* the four binary header fields Grid-Standardize overwrites
GridBinaryHeader(bh, ns) ==
    LET b1 == SliceAssign(bh, 20, 22, PackU16(ns))
        b2 == SliceAssign(b1, 24, 26, PackU16(5))
        b3 == SliceAssign(b2, 16, 18, PackU16(4003))
    IN  SliceAssign(b3, 300, 302, PackU16(2))

\* inline and crossline taken from the wrong loop variables
GridTraceHeaderSwapped(th, il, xl, ns) ==
    LET h1 == SliceAssign(th, 188, 190, PackU16(xl + 1))
        h2 == SliceAssign(h1, 192, 194, PackU16(il + 1))
        h3 == SliceAssign(h2, 180, 184, PackI32(il * 100))
        h4 == SliceAssign(h3, 184, 188, PackI32(xl * 100))
        h5 == SliceAssign(h4, 114, 116, PackU16(ns))
    IN  SliceAssign(h5, 116, 118, PackU16(4003))

\* the six trace header fields Grid-Standardize overwrites
GridTraceHeader(th, il, xl, ns) ==
    LET h1 == SliceAssign(th, 188, 190, PackU16(il + 1))
        h2 == SliceAssign(h1, 192, 194, PackU16(xl + 1))
        h3 == SliceAssign(h2, 180, 184, PackI32(il * 100))
        h4 == SliceAssign(h3, 184, 188, PackI32(xl * 100))
        h5 == SliceAssign(h4, 114, 116, PackU16(ns))
    IN  SliceAssign(h5, 116, 118, PackU16(4003))

\* the payload written: padded or cut to data_size bytes
GridData(data, data_size) ==
    IF Len(data) < data_size THEN LJust(data, data_size)
    ELSE IF Len(data) > data_size THEN Slice(data, 0, data_size)
    ELSE data

\* a file whose binary header declares hns samples (as an unsigned 16-bit
\* value) and whose n traces carry tns samples each
GridFile(hns, tns, n, tl) ==
    TextBytes \o MkBinaryHeader(hns, 5, 0) \o MkTraces([k \in 1..n |-> tns], 1, tns, TRUE)
        \o MkTail(tl, tns)

\* the largest sample count that is positive as a signed 16-bit value
LargestCount == 32767

\* -60, -100 and -1 as unsigned 16-bit values
NegativeCounts == {65476, 65436, 65535}

GridInputs ==
    {GridFile(ns, ns, n, tl) : ns \in HeaderCounts, n \in 0..MaxGridTraces, tl \in {0, 1}}
        \cup {GridFile(hns, 1, n, 0) : hns \in NegativeCounts, n \in 0..1}
        \cup {GridFile(LargestCount, LargestCount, n, 0) : n \in 0..1}
        \cup {Slice(GridFile(hns, 1, 0, 0), 0, 3300) : hns \in NegativeCounts}
        \cup ShortFiles

InitGrid ==
    /\ op = "grid"
    /\ pc = "start"
    /\ run = 1
    /\ infile \in GridInputs
    /\ input0 = infile
    /\ quiet_nan = TRUE
    /\ outfile0 \in PriorOutputs
    /\ outfile = outfile0
    /\ out1 = Absent
    /\ Locals0

\* analyze_segy_parameters
GridParams ==
    /\ op = "grid" /\ pc = "start"
    /\ LET bh == Read(infile, TextualSize, BinarySize)
           info == get_binary_header_details(bh)
       IN  IF ~DetailsReadable(bh)
           THEN /\ pc' = "raised" /\ err' = "struct.error"
                /\ UNCHANGED <<num_samples, trace_size>>
           ELSE /\ pc' = "open" /\ err' = ""
                /\ num_samples' = info.num_samples
                /\ trace_size' = TraceSize(info.num_samples)
    /\ UNCHANGED <<op, Files, file_size, textual_header, binary_header, FixLocals,
                   WalkLocals, GridLocals>>

\* open both files, read the headers, compute the grid, write the headers
GridOpen ==
    /\ op = "grid" /\ pc = "open"
    /\ textual_header' = Read(infile, 0, TextualSize)
    /\ file_size' = Len(infile)
    /\ LET bh == Read(infile, TextualSize, BinarySize)
           total == TotalTraces(Len(infile), trace_size)
       IN  IF trace_size = 0
           THEN /\ pc' = "raised" /\ err' = "ZeroDivisionError"
                /\ outfile' = <<>> /\ binary_header' = bh
                /\ UNCHANGED <<total_traces, grid_size, pos>>
           ELSE IF total < 0
           THEN /\ pc' = "raised" /\ err' = "ValueError"
                /\ outfile' = <<>> /\ binary_header' = bh
                /\ total_traces' = total
                /\ UNCHANGED <<grid_size, pos>>
           ELSE IF ~CanPackU16(num_samples)
           THEN /\ pc' = "raised" /\ err' = "struct.error"
                /\ outfile' = <<>> /\ binary_header' = bh
                /\ total_traces' = total /\ grid_size' = GridSize(total)
                /\ UNCHANGED pos
           ELSE /\ pc' = "loop" /\ err' = ""
                /\ total_traces' = total /\ grid_size' = GridSize(total)
                /\ binary_header' = GridBinaryHeader(bh, num_samples)
                /\ outfile' = textual_header' \o binary_header'
                /\ pos' = HeaderSize
    /\ inline' = 0 /\ xline' = 0 /\ trace_count' = 0 /\ written' = <<>>
    /\ UNCHANGED <<Params, op, run, quiet_nan, input0, infile, outfile0, out1, num_samples,
                   data_format, traces, actual_traces, idx, WalkLocals, trace_size>>

\* one iteration of the body of `for inline ...: for xline ...:`; a break
\* leaves the inner loop only
GridCell ==
    /\ op = "grid" /\ pc = "loop" /\ inline < grid_size
    /\ LET trace_header == Read(infile, pos, TraceHeaderSize)
           data_size == num_samples * SampleSize
           data == Read(infile, pos + TraceHeaderSize, data_size)
           out == GridTraceHeader(trace_header, inline, xline, num_samples)
                      \o GridData(data, data_size)
       IN  IF pos >= file_size \/ Len(trace_header) # TraceHeaderSize
           THEN /\ inline' = inline + 1 /\ xline' = 0
                /\ UNCHANGED <<outfile, written, trace_count, pos>>
           ELSE /\ outfile' = outfile \o out
                /\ written' = Append(written,
                        [off |-> Len(outfile), len |-> Len(out), src |-> pos])
                /\ trace_count' = trace_count + 1
                /\ pos' = pos + TraceHeaderSize + Len(data)
                /\ IF xline + 1 < grid_size
                   THEN inline' = inline /\ xline' = xline + 1
                   ELSE inline' = inline + 1 /\ xline' = 0
    /\ UNCHANGED <<Params, op, pc, run, quiet_nan, input0, infile, outfile0, out1, err,
                   file_size, textual_header, binary_header, num_samples,
                   data_format, traces, actual_traces, idx, WalkLocals, trace_size,
                   total_traces, grid_size>>

\* both loops are over: the report is printed and the files are closed
GridFinish ==
    /\ op = "grid" /\ pc = "loop" /\ inline >= grid_size
    /\ pc' = "done"
    /\ UNCHANGED <<op, Files, err, file_size, textual_header, binary_header,
                   num_samples, FixLocals, WalkLocals, trace_size, GridLocals>>

NextGrid ==
    \/ GridParams
    \/ GridOpen
    \/ GridCell
    \/ GridFinish

SpecGrid == InitGrid /\ [][NextGrid]_vars

(***************************************************************************)
(* Properties of Fix-Up.                                                   *)
(***************************************************************************)
\* the sample count, format code and revision code a file's binary header holds
HeaderSamples(f) == read_binary_header(f).num_samples
HeaderFormat(f) == read_binary_header(f).data_sample_format
HeaderRevision(f) == UnpackU16(Slice(Read(f, TextualSize, BinarySize), 300, 302))

\* a clean Rev-2/float32 file: n traces that each declare num_samples samples
\* and nothing else after the 3600 header bytes
IsClean(f) ==
    /\ Len(f) >= HeaderSize
    /\ HeaderRevision(f) = 2
    /\ HeaderFormat(f) = 5
    /\ HeaderSamples(f) > 0
    /\ LET ts == TraceSize(HeaderSamples(f))
           n == (Len(f) - HeaderSize) \div ts
       IN  /\ Len(f) = HeaderSize + n * ts
           /\ \A k \in 0..(n - 1) :
                 DeclaredSamples(Read(f, HeaderSize + k * ts, TraceHeaderSize))
                     = HeaderSamples(f)

\* C1: for a clean Rev-2/float32 input, Fix-Up run on the output of Fix-Up
\* writes a file that is byte-identical to that first output.
C1_Idempotent ==
    (op = "fix" /\ run = 2 /\ pc = "done" /\ IsClean(input0)) => outfile = out1

\* the total-trace-count field of a file's binary header, read at the
\* offset the field is written at (struct.error when the bytes are not there)
TraceCountField(f) ==
    LET b == Slice(Read(f, TextualSize, BinarySize), 3212, 3216)
    IN  IF Len(b) = 4
        THEN b[1] * 16777216 + b[2] * 65536 + b[3] * 256 + b[4]
        ELSE StructError

\* C2: when Fix-Up completes, the total-trace-count field of the output's
\* binary header holds the number of trace records the pre-scan found, which
\* is the number of traces written.
C2_CountField ==
    (op = "fix" /\ run = 1 /\ pc = "done") =>
        /\ TraceCountField(outfile) = Len(traces)
        /\ Len(written) = Len(traces)

\* C3: a file Fix-Up has written has a header region of exactly 3600 bytes,
\* its k-th trace starts at 3600 + k * (240 + num_samples * 4), and 3600 plus
\* the sum of its trace sizes is its size.
C3_Layout ==
    (op = "fix" /\ run = 1 /\ pc \in {"write", "done"}) =>
        /\ \A k \in 1..Len(written) :
              written[k].off = HeaderSize + (k - 1) * TraceSize(num_samples)
        /\ Len(outfile) = HeaderSize + Len(written) * TraceSize(num_samples)

\* C4: every trace Fix-Up emits is 240 + num_samples * 4 bytes long: the
\* 240-byte header with num_samples in its sample-count field, then
\* min(declared, num_samples) re-encoded samples, then zeros; the traces
\* follow each other with no other bytes between or after them.
C4_SizeInvariant ==
    (op = "fix" /\ pc \in {"write", "done"}) =>
        /\ Len(written) = idx - 1
        /\ \A k \in 1..Len(written) :
              LET w == written[k]
                  kept == Min(traces[k].samples, num_samples)
                  th == Read(outfile, w.off, TraceHeaderSize)
              IN  /\ w.len = TraceHeaderSize + num_samples * SampleSize
                  /\ w.off + w.len <= Len(outfile)
                  /\ Len(th) = TraceHeaderSize
                  /\ DeclaredSamples(th) = num_samples
                  /\ \A i \in (w.off + TraceHeaderSize + kept * SampleSize + 1)
                                  ..(w.off + w.len) : outfile[i] = 0
                  /\ IF k < Len(written)
                     THEN written[k + 1].off = w.off + w.len
                     ELSE Len(outfile) = w.off + w.len

\* a trace that declared fewer samples than num_samples and one that
\* declared more have both been written
C4_Witness ==
    /\ op = "fix" /\ run = 1 /\ pc = "done"
    /\ \E k \in 1..Len(traces) : traces[k].samples < num_samples
    /\ \E k \in 1..Len(traces) : traces[k].samples > num_samples

\* C5: on an input shorter than 3600 bytes, or whose binary header declares
\* a sample count <= 0, Fix-Up raises, and the output path is as it was
\* before the call.
C5_FailBeforeWrite ==
    (/\ op = "fix"
     /\ pc # "start"
     /\ (Len(infile) < HeaderSize \/ HeaderSamples(infile) <= 0)) =>
        (pc = "raised" /\ err # "" /\ outfile = outfile0)

\* Fix-Up has raised on a file of full header size that declares 0 samples,
\* and the existing output file is still there
C5_Witness ==
    /\ op = "fix" /\ pc = "raised"
    /\ Len(infile) >= HeaderSize
    /\ HeaderSamples(infile) = 0
    /\ outfile = <<9, 9, 9>>

\* C8: the pre-scan terminates without raising.  Every evaluation of the
\* scan loop either leaves the loop for the write phase or records one trace
\* and moves the scan position strictly forward, never past the end of the
\* file, so a file of file_size bytes allows at most file_size - 3600
\* iterations; nothing is raised; a header-only file of 3604 bytes leaves
\* the loop with no trace record.
C8_Termination ==
    [][(op = "fix" /\ pc = "scan") =>
         /\ err' = ""
         /\ \/ /\ pc' = "scan"
               /\ pos' > pos
               /\ pos' <= file_size
               /\ file_size - pos' < file_size - pos
               /\ Len(traces') = Len(traces) + 1
            \/ /\ pc' = "open"
               /\ traces' = traces
               /\ Len(infile) = 3604 => traces = <<>>]_vars

\* the pre-scan of a 3604-byte file with num_samples = 1 is over
C8_Witness ==
    /\ op = "fix" /\ run = 1 /\ pc = "open"
    /\ Len(infile) = 3604 /\ num_samples = 1
    /\ traces = <<>> /\ err = ""

\* C9: at every point of the pre-scan the records tile a prefix of the trace
\* region from offset 3600 up to the scan position, each record has
\* size = 240 + samples * 4 and ends within the file, and its sample count is
\* the declared count, or num_samples where the header declares 0.
C9_ScanRecords ==
    (op = "fix" /\ pc \in {"scan", "open"}) =>
        /\ actual_traces = Len(traces)
        /\ pos = (IF traces = <<>> THEN HeaderSize
                  ELSE traces[Len(traces)].pos + traces[Len(traces)].size)
        /\ \A k \in 1..Len(traces) :
              LET t == traces[k]
                  declared == infile[t.pos + 115] * 256 + infile[t.pos + 116]
              IN  /\ t.pos = (IF k = 1 THEN HeaderSize
                              ELSE traces[k - 1].pos + traces[k - 1].size)
                  /\ t.size = 240 + t.samples * 4
                  /\ t.pos + t.size <= file_size
                  /\ t.samples = (IF declared = 0 THEN num_samples ELSE declared)

\* the scan has recorded a second trace whose header declares 0 samples
C9_Witness ==
    /\ op = "fix" /\ run = 1 /\ pc = "scan"
    /\ Len(traces) >= 2
    /\ infile[traces[2].pos + 115] = 0 /\ infile[traces[2].pos + 116] = 0
    /\ traces[2].samples = num_samples
    /\ traces[1].samples # num_samples

\* C10: the analyzer's walk visits the trace starts and sizes the pre-scan
\* records, so both find the same number of traces.
C10_SameWalk ==
    (op = "fix" /\ run = 1 /\ pc = "open") =>
        awalk = [k \in 1..Len(traces) |->
                    [pos |-> traces[k].pos, size |-> traces[k].size]]

(***************************************************************************)
(* Properties of Grid-Standardize.                                         *)
(***************************************************************************)
\* the labels of the trace written at offset off of file f
InlineOf(f, off) == UnpackU16(Read(f, off + 188, 2))
XlineOf(f, off) == UnpackU16(Read(f, off + 192, 2))
CdpXOf(f, off) == UnpackI32(Read(f, off + 180, 4))
CdpYOf(f, off) == UnpackI32(Read(f, off + 184, 4))

\* C6: the k-th trace Grid-Standardize emits (0-based, in input order) carries
\* inline (k div grid_size) + 1, crossline (k mod grid_size) + 1, CDP X
\* (k div grid_size) * 100 and CDP Y (k mod grid_size) * 100; no two emitted
\* traces share an (inline, crossline) pair; an input of exactly 9 uniform
\* traces gives grid_size 3 and 9 emitted traces covering {1,2,3} x {1,2,3}.
C6_GridLabels ==
    (op = "grid" /\ pc \in {"loop", "done"}) =>
        /\ Len(written) = trace_count
        /\ \A k \in 0..(trace_count - 1) :
              LET w == written[k + 1]
              IN  /\ w.src = HeaderSize + k * trace_size
                  /\ w.off = HeaderSize + k * trace_size
                  /\ InlineOf(outfile, w.off) = (k \div grid_size) + 1
                  /\ XlineOf(outfile, w.off) = (k % grid_size) + 1
                  /\ CdpXOf(outfile, w.off) = (k \div grid_size) * 100
                  /\ CdpYOf(outfile, w.off) = (k % grid_size) * 100
        /\ \A j, k \in 1..trace_count :
              (/\ InlineOf(outfile, written[j].off) = InlineOf(outfile, written[k].off)
               /\ XlineOf(outfile, written[j].off) = XlineOf(outfile, written[k].off))
                  => j = k
        /\ (pc = "done" /\ Len(infile) = HeaderSize + 9 * trace_size) =>
              /\ grid_size = 3
              /\ trace_count = 9
              /\ {<<InlineOf(outfile, written[k].off), XlineOf(outfile, written[k].off)>> :
                     k \in 1..trace_count} = (1..3) \X (1..3)

\* Grid-Standardize has completed on exactly 9 uniform traces of one sample
C6_Witness ==
    /\ op = "grid" /\ pc = "done"
    /\ num_samples = 1
    /\ Len(infile) = HeaderSize + 9 * trace_size
    /\ trace_count = 9

\* C7: when Grid-Standardize completes, total_traces is
\* floor((file_size - 3600) / trace_size), grid_size is floor(sqrt(total_traces))
\* and at most grid_size^2 traces have been emitted.
C7_GridBound ==
    (op = "grid" /\ pc \in {"loop", "done"}) =>
        /\ trace_size > 0
        /\ total_traces * trace_size <= file_size - HeaderSize
        /\ file_size - HeaderSize < (total_traces + 1) * trace_size
        /\ grid_size >= 0
        /\ grid_size * grid_size <= total_traces
        /\ total_traces < (grid_size + 1) * (grid_size + 1)
        /\ trace_count <= grid_size * grid_size
        /\ Len(written) = trace_count
        /\ Len(outfile) = HeaderSize + trace_count * trace_size

\* Grid-Standardize has completed on an input with more traces than the grid holds
C7_Witness ==
    /\ op = "grid" /\ pc = "done"
    /\ grid_size = 2
    /\ total_traces = 7
    /\ trace_count = 4

(***************************************************************************)
(* Header-field extraction of the two rewriters, applied to one header.    *)
(***************************************************************************)
\* a 400-byte binary header with the three fields set
MkHeaderFields(si, ns, fmt) ==
    LET z == Zeros(BinarySize)
        b1 == SliceAssign(z, 16, 18, PackU16(si))
        b2 == SliceAssign(b1, 20, 22, PackU16(ns))
    IN  SliceAssign(b2, 24, 26, PackU16(fmt))

\* 16-bit values around the sign bit, and the values real headers hold
FieldValues == {0, 1, 5, 2000, 32767, 32768, 65476, 65535}

HeaderInputs ==
    {TextBytes \o MkHeaderFields(si, ns, fmt) :
        si \in FieldValues, ns \in FieldValues, fmt \in FieldValues}

\* analyze_segy_parameters: the fields as get_binary_header_details reads them
analyze_segy_parameters(f) ==
    LET info == get_binary_header_details(Read(f, TextualSize, BinarySize))
    IN  [num_samples |-> info.num_samples,
         sample_interval |-> info.sample_interval,
         format_code |-> info.format_code,
         trace_size |-> TraceSize(info.num_samples)]

\* what validate_and_fix_segy takes from read_binary_header, and its
\* standard_trace_size
FixHeaderParams(f) ==
    LET h == read_binary_header(f)
    IN  [num_samples |-> h.num_samples,
         sample_interval |-> h.sample_interval,
         format_code |-> h.data_sample_format,
         trace_size |-> TraceSize(h.num_samples)]

InitHeader ==
    /\ op = "header"
    /\ pc = "start"
    /\ run = 1
    /\ infile \in HeaderInputs
    /\ input0 = infile
    /\ quiet_nan = TRUE
    /\ outfile0 = Absent
    /\ outfile = outfile0
    /\ out1 = Absent
    /\ Locals0

\* standardize_segy_for_pzero: params = analyze_segy_parameters(input_file)
HeaderGrid ==
    /\ op = "header" /\ pc = "start"
    /\ grid_params' = analyze_segy_parameters(infile)
    /\ pc' = "grid_read"
    /\ UNCHANGED <<op, run, quiet_nan, input0, infile, outfile, outfile0, out1, err,
                   file_size, textual_header, binary_header, num_samples, FixLocals,
                   WalkLocals, trace_size, GridLocals, fix_params>>

\* validate_and_fix_segy: read_binary_header(infile) on the same file
HeaderFix ==
    /\ op = "header" /\ pc = "grid_read"
    /\ fix_params' = FixHeaderParams(infile)
    /\ pc' = "both_read"
    /\ UNCHANGED <<op, run, quiet_nan, input0, infile, outfile, outfile0, out1, err,
                   file_size, textual_header, binary_header, num_samples, FixLocals,
                   WalkLocals, trace_size, GridLocals, grid_params>>

NextHeader ==
    \/ HeaderGrid
    \/ HeaderFix

SpecHeader == InitHeader /\ [][NextHeader]_vars

\* C11: for every binary header, the num_samples, sample_interval and
\* format_code Grid-Standardize gets from analyze_segy_parameters equal the
\* values read_binary_header returns to Fix-Up, and both compute the same
\* trace_size = 240 + num_samples * 4.
C11_SameFields ==
    (op = "header" /\ pc = "both_read") =>
        /\ grid_params.num_samples = fix_params.num_samples
        /\ grid_params.sample_interval = fix_params.sample_interval
        /\ grid_params.format_code = fix_params.format_code
        /\ grid_params.trace_size = fix_params.trace_size
        /\ grid_params.trace_size = 240 + fix_params.num_samples * 4

\* C12: on an input of at least 3600 bytes whose binary header declares
\* 0..32767 samples, Grid-Standardize does not raise and fills its grid: no
\* cell is left by an early stop (the number of traces emitted is the number
\* of cells visited), every payload is read in full from input offset
\* 3600 + k * trace_size and written as 240 + num_samples * 4 bytes, the
\* input holds every trace the remaining cells will read, and at the end
\* exactly grid_size^2 traces are emitted, the input traces beyond them not.
C12_GridFilled ==
    (/\ op = "grid"
     /\ pc # "start"
     /\ Len(infile) >= HeaderSize
     /\ analyze_segy_parameters(infile).num_samples \in 0..32767) =>
        /\ pc \in {"open", "loop", "done"}
        /\ err = ""
        /\ pc \in {"loop", "done"} =>
              /\ trace_count = inline * grid_size + xline
              /\ Len(written) = trace_count
              /\ pos = HeaderSize + trace_count * trace_size
              /\ pos + (grid_size * grid_size - trace_count) * trace_size <= file_size
              /\ \A k \in 1..Len(written) :
                    /\ written[k].len = 240 + num_samples * 4
                    /\ written[k].src = HeaderSize + (k - 1) * trace_size
                    /\ written[k].src + written[k].len <= file_size
              /\ Len(outfile) = HeaderSize + trace_count * (240 + num_samples * 4)
        /\ pc = "done" =>
              /\ trace_count = grid_size * grid_size
              /\ trace_count <= total_traces
              /\ \A k \in 1..Len(written) :
                    written[k].src < HeaderSize + grid_size * grid_size * trace_size

\* Grid-Standardize has completed on 10 traces and a cut trace header: the
\* 3 x 3 grid is full and the tenth trace is not emitted
C12_Witness ==
    /\ op = "grid" /\ pc = "done"
    /\ total_traces = 10
    /\ grid_size = 3
    /\ trace_count = 9
    /\ file_size > HeaderSize + total_traces * trace_size

====
